---- MODULE Spec2Model ----
(***************************************************************************)
(* llt-helper: the on-screen overlay notifier (internal/toast), the power  *)
(* mode manager (internal/modes) and the command line front end            *)
(* (cmd/llt-helper), as a state machine.                                   *)
(*                                                                         *)
(* The overlay is a Win32 window driven by a blocking message loop.  The   *)
(* operating system side that the code relies on is modelled by what the   *)
(* Win32 calls do: the thread message queue (posted messages first, then   *)
(* the quit flag, then WM_PAINT for an invalid window, then WM_TIMER for a *)
(* due timer), DestroyWindow (sends WM_DESTROY, kills the window's timers, *)
(* flushes its queued messages) and DefWindowProc (WM_CLOSE destroys the   *)
(* window).                                                                *)
(***************************************************************************)
EXTENDS Integers, Sequences, FiniteSets, Bags, TLC

VARIABLES
    classRegistered,  \* process-wide: window class "LLTHelperOSD" is registered
    globalTitle,      \* var globalTitle string
    globalMessage,    \* var globalMessage string
    wins,             \* window table: handle -> window record (handles 1..Len)
    osd,              \* per thread: the showOSD frame (pc, hwnd, title, message, msg, ret)
    queue,            \* per thread: message queue (posted messages, quit flag)
    lastPaint,        \* what the WM_PAINT response just returned from did
    gdiLive,          \* drawing resources allocated and not yet released
    env,              \* how often the environment has acted in this process
    calls,            \* number of Show* calls started in this process
    cli               \* the command line process (main.go)

vars == <<classRegistered, globalTitle, globalMessage, wins, osd, queue,
          lastPaint, gdiLive, env, calls, cli>>

-----------------------------------------------------------------------------
(* Bounds of the model *)

MaxCalls == 2     \* Show* calls per process
MaxEvents == 2    \* repaint requests and posted messages per process
MaxFaults == 1    \* paint responses per process in which drawing calls fail
MaxFailedCalls == 2 \* calls that fail within one paint response
MaxRuns == 3      \* successive runs of the command line program
MaxList == 2      \* comma-separated parts of a --modes value
MaxModes == 3     \* mode names in the --modes value of repeated toggles

-----------------------------------------------------------------------------
(* Program constants *)

OsdAlpha == 220
OsdDurationMs == 3000
OsdWidth == 400
OsdHeight == 100

Threads == {"main", "worker"}

NoHwnd == 0

PowerModeNames == {"Quiet", "Performance"}
ErrorTexts == {"failed to set mode"}

NoMsg == [hwnd |-> NoHwnd, message |-> "none"]

PaintCalls ==
    {"BeginPaint", "CreateSolidBrush", "FillRect", "CreateFontTitle",
     "CreateFontMessage", "DrawTextTitle", "DrawTextMessage"}

DrawingResources == {"hdc", "bgBrush", "titleFont", "messageFont"}

NoPaint ==
    [hwnd |-> NoHwnd, title |-> "", message |-> "", acquired |-> {},
     releases |-> [r \in DrawingResources |-> 0], live |-> {},
     drawFailed |-> FALSE, validated |-> FALSE]

-----------------------------------------------------------------------------
(* Notifier facade *)

ModeChangeTitle == "Power Mode Changed"

\* Mutant: the format lacks the trailing word.
ModeChangeMessageShort(modeName) == "Switched to " \o modeName

ModeChangeMessage(modeName) == "Switched to " \o modeName \o " Mode"

ErrorTitle == "Power Mode Error"

NoCall == [fn |-> "none", arg |-> ""]

\* A thread that is in no Show* call.  call: the Show* call the thread is in;
\* title, message, duration: showOSD's parameters; hwnd, msg: its locals;
\* regRet: what RegisterClassEx returned to this call.
IdleFrame ==
    [pc |-> "idle", call |-> NoCall, hwnd |-> NoHwnd, title |-> "",
     message |-> "", duration |-> 0, msg |-> NoMsg, ret |-> "none",
     regRet |-> "none"]

\* The entry of showOSD(title, message, duration) on thread t.
EnterShowOSD(t, call, title, message, duration) ==
    /\ osd[t].pc = "idle"
    /\ calls < MaxCalls
    /\ calls' = calls + 1
    /\ osd' = [osd EXCEPT ![t] = [IdleFrame EXCEPT !.pc = "register",
                                               !.call = call,
                                               !.title = title,
                                               !.message = message,
                                               !.duration = duration]]
    /\ lastPaint' = NoPaint

ShowModeChange(t, modeName) ==
    /\ globalTitle' = ModeChangeTitle
    /\ globalMessage' = ModeChangeMessage(modeName)
    /\ EnterShowOSD(t, [fn |-> "ShowModeChange", arg |-> modeName],
                    globalTitle', globalMessage', OsdDurationMs)
    /\ UNCHANGED <<classRegistered, wins, queue, gdiLive, env>>

ShowError(t, message) ==
    /\ globalTitle' = ErrorTitle
    /\ globalMessage' = message
    /\ EnterShowOSD(t, [fn |-> "ShowError", arg |-> message],
                    globalTitle', globalMessage', OsdDurationMs)
    /\ UNCHANGED <<classRegistered, wins, queue, gdiLive, env>>

-----------------------------------------------------------------------------
(* showOSD: window setup *)

\* Mutant: the window is shown before its translucency is set.
NextStatementShowFirst(pc) ==
    CASE pc = "create"   -> "show"
      [] pc = "show"     -> "layered"
      [] pc = "layered"  -> "update"
      [] pc = "update"   -> "settimer"
      [] pc = "settimer" -> "getmsg"

\* The order of showOSD's statements from CreateWindowEx to the loop: the
\* statement that follows the one at pc.
NextStatement(pc) ==
    CASE pc = "create"   -> "layered"
      [] pc = "layered"  -> "show"
      [] pc = "show"     -> "update"
      [] pc = "update"   -> "settimer"
      [] pc = "settimer" -> "getmsg"

\* What RegisterClassEx can return: it fails when the class exists already,
\* and may fail for another reason.
RegisterOutcomes ==
    IF classRegistered THEN {"exists"} ELSE {"ok", "failed"}

\* Mutant: a registration that returns 0 makes showOSD return an error.
RegisterResultChecked(ret) == IF ret = "ok" THEN "continue" ELSE "error"

\* if ret == 0 { /* Class might already be registered, continue anyway */ }
RegisterResult(ret) == "continue"

\* RegisterClassEx and the (empty) test of its result.
RegisterClass(t) ==
    /\ osd[t].pc = "register"
    /\ \E ret \in RegisterOutcomes :
          /\ classRegistered' = (classRegistered \/ ret = "ok")
          /\ osd' = IF RegisterResult(ret) = "error"
                    THEN [osd EXCEPT ![t].pc = "returned", ![t].ret = "error",
                                     ![t].regRet = ret]
                    ELSE [osd EXCEPT ![t].pc = "create", ![t].regRet = ret]
    /\ UNCHANGED <<globalTitle, globalMessage, wins, queue, lastPaint,
                   gdiLive, env, calls, cli>>

\* Go's integer division: the quotient truncated toward zero (b > 0).
GoDiv(a, b) == IF a >= 0 THEN a \div b ELSE 0 - ((0 - a) \div b)

\* int(float64(screenHeight)*0.15): the float64 product truncated.  For
\* every height up to 20000 the product truncates to the floor of the exact
\* 15*screenHeight/100.
FifteenPercent(screenHeight) == (15 * screenHeight) \div 100

\* osdX := int((int(screenWidth) - osdWidth) / 2)
OsdX(screenWidth) == GoDiv(screenWidth - OsdWidth, 2)

\* Mutant: the top edge is put at 85% of the height.
OsdYEightyFivePercent(screenHeight) == (85 * screenHeight) \div 100

\* osdY := int(screenHeight) - int(float64(screenHeight)*0.15)
OsdY(screenHeight) == screenHeight - FifteenPercent(screenHeight)

\* The window CreateWindowEx makes for thread t on the display `screen`
\* (GetSystemMetrics(SM_CXSCREEN), GetSystemMetrics(SM_CYSCREEN)).
\* timerMsgs: the WM_TIMER messages generated for the window.
NewWindow(t) ==
    [owner |-> t, state |-> "live",
     x |-> OsdX(env.screen.w), y |-> OsdY(env.screen.h),
     width |-> OsdWidth, height |-> OsdHeight,
     alpha |-> 0, visible |-> FALSE,
     dirty |-> FALSE, timer |-> "off", expired |-> FALSE, timerMsgs |-> 0,
     destroyReqs |-> 0, destroys |-> 0]

\* Mutant: the null handle is not checked.
CreateResultUnchecked(hwnd) == "continue"

\* What showOSD returns when CreateWindowEx yields hwnd.
CreateResult(hwnd) == IF hwnd = NoHwnd THEN "error" ELSE "continue"

\* CreateWindowEx and the hwnd == 0 check.
CreateWindow(t) ==
    /\ osd[t].pc = "create"
    /\ \E ok \in BOOLEAN :
          LET hwnd == IF ok /\ classRegistered THEN Len(wins) + 1 ELSE NoHwnd
          IN  IF CreateResult(hwnd) = "error"
              THEN /\ osd' = [osd EXCEPT ![t].pc = "returned", ![t].ret = "error"]
                   /\ wins' = wins
              ELSE /\ osd' = [osd EXCEPT ![t].pc = NextStatement("create"),
                                              ![t].hwnd = hwnd]
                   /\ wins' = IF hwnd = NoHwnd THEN wins
                              ELSE Append(wins, NewWindow(t))
    /\ UNCHANGED <<classRegistered, globalTitle, globalMessage, queue,
                   lastPaint, gdiLive, env, calls, cli>>


LiveWindow(h) == h \in DOMAIN wins /\ wins[h].state = "live"

\* SetLayeredWindowAttributes(hwnd, 0, 220, LWA_ALPHA)
SetLayered(t) ==
    /\ osd[t].pc = "layered"
    /\ wins' = IF LiveWindow(osd[t].hwnd)
               THEN [wins EXCEPT ![osd[t].hwnd].alpha = OsdAlpha]
               ELSE wins
    /\ osd' = [osd EXCEPT ![t].pc = NextStatement("layered")]
    /\ UNCHANGED <<classRegistered, globalTitle, globalMessage, queue,
                   lastPaint, gdiLive, env, calls, cli>>

\* ShowWindow(hwnd, SW_SHOW): the window becomes visible and needs painting.
ShowWindow(t) ==
    /\ osd[t].pc = "show"
    /\ wins' = IF LiveWindow(osd[t].hwnd)
               THEN [wins EXCEPT ![osd[t].hwnd].visible = TRUE,
                                 ![osd[t].hwnd].dirty = TRUE]
               ELSE wins
    /\ osd' = [osd EXCEPT ![t].pc = NextStatement("show")]
    /\ UNCHANGED <<classRegistered, globalTitle, globalMessage, queue,
                   lastPaint, gdiLive, env, calls, cli>>

-----------------------------------------------------------------------------
(* wndProcCallback *)

\* Mutant: a font is deleted only when its text was drawn.
FontsDeletedIfDrawn(titleDrawn, messageDrawn) ==
    {r \in {"titleFont", "messageFont"} :
        \/ r = "titleFont" /\ titleDrawn
        \/ r = "messageFont" /\ messageDrawn}

\* The fonts DeleteObject is called on after the text has been drawn: both,
\* whatever the drawing calls returned.
FontsDeleted(titleDrawn, messageDrawn) == {"titleFont", "messageFont"}

\* The WM_PAINT response, call by call.  F is the set of calls that fail in
\* this response (a failed creation returns a null handle; nothing is checked
\* by the code).  A font that is still selected into the paint context when
\* DeleteObject is called on it is freed when EndPaint releases the context.
PaintHandler(F, title, message) ==
    LET hdc        == "BeginPaint" \notin F
        bgBrush    == "CreateSolidBrush" \notin F
        filled     == hdc /\ bgBrush /\ "FillRect" \notin F
        titleFont  == "CreateFontTitle" \notin F
        msgFont    == "CreateFontMessage" \notin F
        \* oldFont := SelectObject(hdc, titleFont)
        selTitle   == hdc /\ titleFont
        oldFont    == selTitle
        sel1       == IF selTitle THEN "titleFont" ELSE "default"
        titleDrawn == hdc /\ "DrawTextTitle" \notin F
        \* SelectObject(hdc, messageFont)
        sel2       == IF hdc /\ msgFont THEN "messageFont" ELSE sel1
        msgDrawn   == hdc /\ "DrawTextMessage" \notin F
        \* SelectObject(hdc, oldFont)
        sel3       == IF hdc /\ oldFont THEN "default" ELSE sel2
        deleted    == FontsDeleted(titleDrawn, msgDrawn)
        acquired   == {r \in DrawingResources :
                          \/ r = "hdc" /\ hdc
                          \/ r = "bgBrush" /\ bgBrush
                          \/ r = "titleFont" /\ titleFont
                          \/ r = "messageFont" /\ msgFont}
        \* release calls issued on an acquired resource
        releases   == [r \in DrawingResources |->
                          IF r \notin acquired THEN 0
                          ELSE IF r = "bgBrush" THEN 1
                          ELSE IF r = "hdc" THEN 1
                          ELSE IF r \in deleted THEN 1 ELSE 0]
        deferred   == {r \in acquired \cap deleted : r = sel3}
        \* EndPaint releases the context and with it the deferred deletions
        freed      == {r \in acquired :
                          \/ r = "hdc"
                          \/ r = "bgBrush"
                          \/ r \in deleted /\ r \notin deferred
                          \/ r \in deferred /\ hdc}
    IN  [title |-> title, message |-> message,
         acquired |-> acquired, releases |-> releases,
         live |-> acquired \ freed,
         drawFailed |-> ~(filled /\ titleDrawn /\ msgDrawn),
         validated |-> hdc]

\* Mutant: the WM_DESTROY case does not post the quit signal.
WndProcNoQuit(message) ==
    CASE message = "WM_PAINT"   -> "Paint"
      [] message = "WM_TIMER"   -> "DestroyWindow"
      [] OTHER                  -> "DefWindowProc"

\* Mutant: the WM_PAINT case falls through into the WM_TIMER case.
WndProcPaintFallsThrough(message) ==
    CASE message = "WM_PAINT"   -> "DestroyWindow"
      [] message = "WM_TIMER"   -> "DestroyWindow"
      [] message = "WM_DESTROY" -> "PostQuitMessage"
      [] OTHER                  -> "DefWindowProc"

\* Mutant: the WM_TIMER case ends the loop without destroying the window.
WndProcTimerQuits(message) ==
    CASE message = "WM_PAINT"   -> "Paint"
      [] message = "WM_TIMER"   -> "PostQuitMessage"
      [] message = "WM_DESTROY" -> "PostQuitMessage"
      [] OTHER                  -> "DefWindowProc"

\* Mutant: the WM_TIMER case is missing.
WndProcTimerIgnored(message) ==
    CASE message = "WM_PAINT"   -> "Paint"
      [] message = "WM_DESTROY" -> "PostQuitMessage"
      [] OTHER                  -> "DefWindowProc"

\* Mutant: a WM_CLOSE case ends the loop without destroying the window.
WndProcCloseQuits(message) ==
    CASE message = "WM_PAINT"   -> "Paint"
      [] message = "WM_TIMER"   -> "DestroyWindow"
      [] message = "WM_DESTROY" -> "PostQuitMessage"
      [] message = "WM_CLOSE"   -> "PostQuitMessage"
      [] OTHER                  -> "DefWindowProc"

\* The switch of wndProcCallback: what the callback does with a message.
WndProcAction(message) ==
    CASE message = "WM_PAINT"   -> "Paint"
      [] message = "WM_TIMER"   -> "DestroyWindow"
      [] message = "WM_DESTROY" -> "PostQuitMessage"
      [] OTHER                  -> "DefWindowProc"

\* DefWindowProc: WM_CLOSE destroys the window, anything else has no effect
\* on the overlay.
DefWindowProc(message) ==
    IF message = "WM_CLOSE" THEN "DestroyWindow" ELSE "None"

\* What handling `message` for a window amounts to, the default handler
\* included.
Effect(message) ==
    IF WndProcAction(message) = "DefWindowProc"
    THEN DefWindowProc(message)
    ELSE WndProcAction(message)


\* DestroyWindow(h), called on the owning thread t: WM_DESTROY is sent to the
\* window procedure before the call returns, the window's timer is killed and
\* the messages queued for it are dropped.  byHandler: the call is the one in
\* the WM_TIMER case (otherwise it is DefWindowProc's).
DestroyWindow(t, h, byHandler) ==
    /\ wins' = [wins EXCEPT ![h].state = "destroyed",
                            ![h].visible = FALSE,
                            ![h].dirty = FALSE,
                            ![h].timer = "off",
                            ![h].destroys = @ + 1,
                            ![h].destroyReqs = IF byHandler THEN @ + 1 ELSE @]
    /\ queue' = [queue EXCEPT
                   ![t].posted = SelectSeq(@, LAMBDA m : m.hwnd # h),
                   ![t].quit = IF Effect("WM_DESTROY") = "PostQuitMessage"
                               THEN TRUE ELSE @]

\* The sets of failing calls a paint response may meet.
FaultChoices ==
    IF env.faults < MaxFaults
    THEN {F \in SUBSET PaintCalls : Cardinality(F) <= MaxFailedCalls}
    ELSE {{}}

\* The title and message a Show* call asks for.
RequestText(call) ==
    IF call.fn = "ShowModeChange"
    THEN <<ModeChangeTitle, ModeChangeMessage(call.arg)>>
    ELSE <<ErrorTitle, call.arg>>

\* Mutant: the text is kept per window, with the request that created it.
PaintTextOfRequest(h) == RequestText(osd[wins[h].owner].call)

\* The text a paint of window h draws: globalTitle and globalMessage, read
\* when the paint runs.
PaintText(h) == <<globalTitle, globalMessage>>

\* The WM_PAINT case for window h with failing calls F.
Paint(h, F) ==
    LET p == PaintHandler(F, PaintText(h)[1], PaintText(h)[2])
    IN  /\ lastPaint' = [hwnd |-> h] @@ p
        /\ gdiLive' = gdiLive \cup p.live
        /\ wins' = [wins EXCEPT ![h].dirty = IF p.validated THEN FALSE ELSE @]
        /\ env' = [env EXCEPT !.faults = IF F = {} THEN @ ELSE @ + 1]

\* The window procedure is called on thread t with `message` for window h.
\* A handle that is no window any more reaches no window procedure.
Deliver(t, h, message) ==
    LET e == IF LiveWindow(h) THEN Effect(message) ELSE "None"
    IN  CASE e = "Paint" ->
               /\ \E F \in FaultChoices : Paint(h, F)
               /\ UNCHANGED queue
          [] e = "DestroyWindow" ->
               /\ DestroyWindow(t, h, WndProcAction(message) = "DestroyWindow")
               /\ UNCHANGED <<lastPaint, gdiLive, env>>
          [] e = "PostQuitMessage" ->
               /\ queue' = [queue EXCEPT ![t].quit = TRUE]
               /\ UNCHANGED <<wins, lastPaint, gdiLive, env>>
          [] OTHER ->
               UNCHANGED <<wins, queue, lastPaint, gdiLive, env>>

-----------------------------------------------------------------------------
(* showOSD: first paint, timer, message loop *)

\* UpdateWindow(hwnd): a window that needs painting gets WM_PAINT at once.
UpdateWindow(t) ==
    /\ osd[t].pc = "update"
    /\ IF LiveWindow(osd[t].hwnd) /\ wins[osd[t].hwnd].dirty
       THEN Deliver(t, osd[t].hwnd, "WM_PAINT")
       ELSE UNCHANGED <<wins, queue, lastPaint, gdiLive, env>>
    /\ osd' = [osd EXCEPT ![t].pc = NextStatement("update")]
    /\ UNCHANGED <<classRegistered, globalTitle, globalMessage, calls, cli>>

\* SetTimer(hwnd, 1, duration, 0); the result is ignored by the code.
SetTimer(t) ==
    /\ osd[t].pc = "settimer"
    /\ \E ok \in BOOLEAN :
          wins' = IF LiveWindow(osd[t].hwnd) /\ ok
                  THEN [wins EXCEPT ![osd[t].hwnd].timer = "armed"]
                  ELSE wins
    /\ osd' = [osd EXCEPT ![t].pc = NextStatement("settimer")]
    /\ lastPaint' = NoPaint
    /\ UNCHANGED <<classRegistered, globalTitle, globalMessage, queue,
                   gdiLive, env, calls, cli>>

OwnedBy(t) == {h \in DOMAIN wins : wins[h].owner = t /\ wins[h].state = "live"}

\* The message GetMessage hands to thread t: a posted message, else the quit
\* signal, else WM_PAINT for a window that needs painting, else WM_TIMER for
\* a due timer; with none of them the call blocks.
Retrievable(t) ==
    IF queue[t].posted # <<>> THEN {Head(queue[t].posted)}
    ELSE IF queue[t].quit THEN {[hwnd |-> NoHwnd, message |-> "WM_QUIT"]}
    ELSE IF \E h \in OwnedBy(t) : wins[h].dirty
         THEN {[hwnd |-> h, message |-> "WM_PAINT"] :
                   h \in {w \in OwnedBy(t) : wins[w].dirty}}
    ELSE {[hwnd |-> h, message |-> "WM_TIMER"] :
              h \in {w \in OwnedBy(t) : wins[w].timer = "due"}}

\* GetMessage's return value for a retrieved message.
GetMessageRet(m) == IF m.message = "WM_QUIT" THEN 0 ELSE 1

\* The values GetMessage is documented to return: -1 for an error, 0 for
\* WM_QUIT, nonzero for any other message.  With a null window filter and a
\* valid MSG pointer, as in showOSD, the call has no failing case.
GetMessageResults == {0 - 1, 0, 1}

\* Mutant: the loop ends after the first message, whatever it is.
LoopBreaksAlways(ret) == TRUE

\* Mutant: the loop has no exit test.
LoopBreaksNever(ret) == FALSE

\* if ret == 0 { break }
LoopBreaks(ret) == ret = 0

\* One GetMessage call of the loop and the test of its result.
GetMessage(t) ==
    /\ osd[t].pc = "getmsg"
    /\ \E m \in Retrievable(t) :
          /\ queue' = [queue EXCEPT
                         ![t].posted = IF @ # <<>> THEN Tail(@) ELSE @,
                         ![t].quit = IF m.message = "WM_QUIT" THEN FALSE ELSE @]
          /\ wins' = IF m.message = "WM_TIMER"
                     THEN [wins EXCEPT ![m.hwnd].timer = "armed",
                                       ![m.hwnd].timerMsgs = @ + 1]
                     ELSE wins
          /\ osd' = IF LoopBreaks(GetMessageRet(m))
                    THEN [osd EXCEPT ![t].pc = "returned", ![t].msg = m,
                                     ![t].ret = "nil"]
                    ELSE [osd EXCEPT ![t].pc = "dispatch", ![t].msg = m]
    /\ lastPaint' = NoPaint
    /\ UNCHANGED <<classRegistered, globalTitle, globalMessage, gdiLive,
                   env, calls, cli>>

\* TranslateMessage and DispatchMessage.
DispatchMessage(t) ==
    /\ osd[t].pc = "dispatch"
    /\ Deliver(t, osd[t].msg.hwnd, osd[t].msg.message)
    /\ osd' = [osd EXCEPT ![t].pc = "getmsg"]
    /\ UNCHANGED <<classRegistered, globalTitle, globalMessage, calls, cli>>

-----------------------------------------------------------------------------
(* The environment of an overlay *)

\* The duration set with SetTimer elapses.
TimerElapses(h) ==
    /\ LiveWindow(h)
    /\ wins[h].timer = "armed"
    /\ wins' = [wins EXCEPT ![h].timer = "due", ![h].expired = TRUE]
    /\ UNCHANGED <<classRegistered, globalTitle, globalMessage, osd, queue,
                   lastPaint, gdiLive, env, calls, cli>>

\* The OS invalidates the visible window (it asks for a repaint).
Invalidate(h) ==
    /\ LiveWindow(h)
    /\ wins[h].visible
    /\ ~wins[h].dirty
    /\ env.events < MaxEvents
    /\ wins' = [wins EXCEPT ![h].dirty = TRUE]
    /\ env' = [env EXCEPT !.events = @ + 1]
    /\ UNCHANGED <<classRegistered, globalTitle, globalMessage, osd, queue,
                   lastPaint, gdiLive, calls, cli>>

PostedMessages == {"WM_CLOSE", "WM_MOUSEMOVE"}

\* The user or another program posts a message to the window (Alt+F4 and a
\* polite task kill arrive as WM_CLOSE).
PostMessage(h, message) ==
    /\ LiveWindow(h)
    /\ env.events < MaxEvents
    /\ queue' = [queue EXCEPT ![wins[h].owner].posted =
                                  Append(@, [hwnd |-> h, message |-> message])]
    /\ env' = [env EXCEPT !.events = @ + 1]
    /\ UNCHANGED <<classRegistered, globalTitle, globalMessage, wins, osd,
                   lastPaint, gdiLive, calls, cli>>


-----------------------------------------------------------------------------
(* A caller of the notifier: Show* calls made one after the other on the     *)
(* main thread of one process.                                               *)

NoCli == [pc |-> "none"]

\* The primary display of the runs in which its size plays no part.
FullHD == [w |-> 1920, h |-> 1080]

\* The state of a process before its first Show* call, on the primary
\* display `screen`.
InitNotifierOn(screen) ==
    /\ classRegistered = FALSE
    /\ globalTitle = ""
    /\ globalMessage = ""
    /\ wins = <<>>
    /\ osd = [t \in Threads |-> IdleFrame]
    /\ queue = [t \in Threads |-> [posted |-> <<>>, quit |-> FALSE]]
    /\ lastPaint = NoPaint
    /\ gdiLive = {}
    /\ env = [events |-> 0, faults |-> 0, screen |-> screen]
    /\ calls = 0

InitNotifier == InitNotifierOn(FullHD)

Init ==
    /\ InitNotifier
    /\ cli = NoCli

CallShowModeChange(t) ==
    /\ \E modeName \in PowerModeNames : ShowModeChange(t, modeName)
    /\ UNCHANGED cli

CallShowError(t) ==
    /\ \E message \in ErrorTexts : ShowError(t, message)
    /\ UNCHANGED cli

\* Show* hands showOSD's result to its caller.
ShowReturns(t) ==
    /\ osd[t].pc = "returned"
    /\ osd' = [osd EXCEPT ![t] = [IdleFrame EXCEPT !.ret = osd[t].ret]]
    /\ UNCHANGED <<classRegistered, globalTitle, globalMessage, wins, queue,
                   lastPaint, gdiLive, env, calls>>

\* The steps of showOSD on thread t.
ShowOSDStep(t) ==
    \/ RegisterClass(t)
    \/ CreateWindow(t)
    \/ SetLayered(t)
    \/ ShowWindow(t)
    \/ UpdateWindow(t)
    \/ SetTimer(t)
    \/ GetMessage(t)
    \/ DispatchMessage(t)

Environment ==
    \/ \E h \in DOMAIN wins : TimerElapses(h)
    \/ \E h \in DOMAIN wins : Invalidate(h)
    \/ \E h \in DOMAIN wins : \E m \in PostedMessages : PostMessage(h, m)

Next ==
    \/ CallShowModeChange("main")
    \/ CallShowError("main")
    \/ ShowOSDStep("main")
    \/ (ShowReturns("main") /\ UNCHANGED cli)
    \/ Environment

Spec == Init /\ [][Next]_vars

-----------------------------------------------------------------------------
(* internal/modes: the power mode manager *)

\* NewManager: the sequence toggle cycles through.
sequence == <<"quiet", "balance", "performance">>

\* The index of the first element of list equal to mode, 0 when there is none
\* (the loops that leave currentIndex at -1).
IndexOf(mode, list) ==
    IF \E i \in 1..Len(list) : list[i] = mode
    THEN CHOOSE i \in 1..Len(list) :
             list[i] = mode /\ \A j \in 1..(i - 1) : list[j] # mode
    ELSE 0

\* The list element after position currentIndex, wrapping around; the first
\* element when currentIndex is 0 (not found).
NextInList(currentIndex, list) ==
    IF currentIndex = 0
    THEN list[1]
    ELSE list[(currentIndex % Len(list)) + 1]

\* Mutant: the sequence has godmode as its fourth mode.
GetNextModeFourModes(current) ==
    NextInList(IndexOf(current, sequence \o <<"godmode">>),
               sequence \o <<"godmode">>)

GetNextMode(current) == NextInList(IndexOf(current, sequence), sequence)

\* Mutant: a current mode that is not in the list falls back to the default
\* sequence.
GetNextModeFromListFallback(current, allowedModes) ==
    IF Len(allowedModes) = 0 \/ IndexOf(current, allowedModes) = 0
    THEN GetNextMode(current)
    ELSE NextInList(IndexOf(current, allowedModes), allowedModes)

GetNextModeFromList(current, allowedModes) ==
    IF Len(allowedModes) = 0
    THEN GetNextMode(current)
    ELSE NextInList(IndexOf(current, allowedModes), allowedModes)

\* Mutant: every mode name is taken as valid.
IsValidModeAny(mode) == TRUE

IsValidMode(mode) == \E i \in 1..Len(sequence) : sequence[i] = mode

\* Mutant: the mode's identifier is shown, not its display name.
ModeNameRaw(mode) == mode

\* GetModeMetadata(mode).Name
ModeName(mode) ==
    CASE mode = "quiet"       -> "Quiet"
      [] mode = "balance"     -> "Balance"
      [] mode = "performance" -> "Performance"
      [] OTHER                -> mode

-----------------------------------------------------------------------------
(* cmd/llt-helper: main and the command handlers.  The power mode of the     *)
(* machine (cli.device) is what `llt f get power-mode` prints and what       *)
(* `llt f set power-mode` changes; it outlives a run of the program.         *)

\* The power modes Lenovo Legion Toolkit can be in.
DeviceModes == {"quiet", "balance", "performance", "godmode"}

Commands == {"toggle", "set", "status", "reboot"}

\* Values of --mode ("" when the flag is absent).
ModeFlags == {""} \cup DeviceModes

\* The parts of a --modes value between its commas, trimmed; <<>> when the
\* flag is absent or empty.
ModesParts == {"", "quiet", "performance", "godmode"}

ModesFlags ==
    UNION {[1..n -> ModesParts] : n \in 0..MaxList}

\* The command lines of a run: a handler reads only its own flags.
Args ==
    {[command |-> "toggle", modeFlag |-> "", modesFlag |-> l, noToast |-> n] :
         l \in ModesFlags, n \in BOOLEAN}
    \cup
    {[command |-> "set", modeFlag |-> m, modesFlag |-> <<>>, noToast |-> n] :
         m \in ModeFlags, n \in BOOLEAN}
    \cup
    {[command |-> c, modeFlag |-> "", modesFlag |-> <<>>, noToast |-> FALSE] :
         c \in {"status", "reboot"}}

NoExit == 0 - 1

\* A process at the start of main, with the machine in power mode device;
\* llt: what llt.NewClient and IsRunning found; origin and trail: the mode before, and the modes set by, the latest
\* successful plain toggles (no --modes) since the mode was set otherwise.
StartOfMain(run, device, origin, trail) ==
    [pc |-> "main", run |-> run, llt |-> "none", command |-> "", modeFlag |-> "",
     modesFlag |-> <<>>, noToast |-> FALSE, current |-> "", next |-> "",
     setMode |-> "none", toast |-> "none", err |-> "", exitCode |-> NoExit,
     device |-> device, origin |-> origin, trail |-> trail]

Exit(code) == [cli EXCEPT !.pc = "exited", !.exitCode = code]

NotifierUnchanged ==
    UNCHANGED <<classRegistered, globalTitle, globalMessage, wins, osd, queue,
                lastPaint, gdiLive, env, calls>>

\* What NewClient (os.Stat of llt.exe) and IsRunning (`llt f get power-mode`
\* exits with 0) find.
LltState(lltFound, lltRunning) ==
    IF ~lltFound THEN "missing" ELSE IF ~lltRunning THEN "down" ELSE "ok"

\* Mutant: the availability probe is not made.
ClientUnusableNoProbe(llt) == llt = "missing"

\* if err != nil { os.Exit(1) }; if !lltClient.IsRunning() { os.Exit(1) }
ClientUnusable(llt) == llt \in {"missing", "down"}

\* main up to the command switch: flag parsing, llt.NewClient, IsRunning,
\* modes.NewManager, toast.NewNotifier.
Main ==
    /\ cli.pc = "main"
    /\ \E a \in Args, lltFound \in BOOLEAN, lltRunning \in BOOLEAN :
          LET c == [cli EXCEPT !.command = a.command, !.modeFlag = a.modeFlag,
                               !.modesFlag = a.modesFlag, !.noToast = a.noToast,
                               !.llt = LltState(lltFound, lltRunning)]
          IN  cli' = IF ClientUnusable(c.llt)
                     THEN [c EXCEPT !.pc = "exited", !.exitCode = 1]
                     ELSE [c EXCEPT !.pc = "switch"]
    /\ NotifierUnchanged

\* switch command
Switch ==
    /\ cli.pc = "switch"
    /\ cli' = CASE cli.command = "toggle" -> [cli EXCEPT !.pc = "handleToggle"]
                [] cli.command = "set" ->
                     IF cli.modeFlag = "" THEN Exit(2)
                     ELSE [cli EXCEPT !.pc = "handleSet"]
                [] cli.command = "status" -> [cli EXCEPT !.pc = "handleStatus"]
                [] OTHER -> Exit(2)
    /\ NotifierUnchanged

\* The handler returns err to main.
Return(c, err) == [c EXCEPT !.pc = "handlerReturned", !.err = err]

\* The --modes loop of handleToggle: "invalid" at the first part that is not
\* empty and not a valid mode, else the valid parts in order.
RECURSIVE ParseModes(_)
ParseModes(parts) ==
    IF parts = <<>> THEN <<>>
    ELSE IF Head(parts) = "" THEN ParseModes(Tail(parts))
    ELSE IF ~IsValidMode(Head(parts)) THEN "invalid"
    ELSE LET rest == ParseModes(Tail(parts))
         IN  IF rest = "invalid" THEN "invalid" ELSE <<Head(parts)>> \o rest

\* client.SetMode(mode) has succeeded.
ModeSet(c, mode) ==
    [c EXCEPT !.pc = "notify", !.next = mode, !.setMode = "ok",
              !.device = mode,
              !.origin = IF c.command = "toggle" /\ c.modesFlag = <<>>
                         THEN @ ELSE mode,
              !.trail = IF c.command = "toggle" /\ c.modesFlag = <<>>
                        THEN Append(@, mode) ELSE <<>>]

\* handleToggle up to the notification.
HandleToggle ==
    /\ cli.pc = "handleToggle"
    /\ \E getOk \in BOOLEAN, setOk \in BOOLEAN :
          LET c       == [cli EXCEPT !.current = cli.device]
              allowed == ParseModes(cli.modesFlag)
              next    == GetNextModeFromList(c.current, allowed)
          IN  cli' =
                IF ~getOk THEN Return(cli, "failed to get current mode")
                ELSE IF allowed = "invalid"
                     THEN Return(c, "invalid mode in --modes flag")
                ELSE IF cli.modesFlag # <<>> /\ Len(allowed) = 0
                     THEN Return(c, "no valid modes specified in --modes flag")
                ELSE IF ~setOk
                     THEN Return([c EXCEPT !.next = next, !.setMode = "failed"],
                                 "failed to set mode")
                ELSE ModeSet(c, next)
    /\ NotifierUnchanged

\* handleSet up to the notification.
HandleSet ==
    /\ cli.pc = "handleSet"
    /\ \E setOk \in BOOLEAN :
          cli' = IF ~IsValidMode(cli.modeFlag)
                 THEN Return(cli, "unknown power mode")
                 ELSE IF ~setOk
                      THEN Return([cli EXCEPT !.next = cli.modeFlag,
                                              !.setMode = "failed"],
                                  "failed to set mode")
                 ELSE ModeSet(cli, cli.modeFlag)
    /\ NotifierUnchanged

HandleStatus ==
    /\ cli.pc = "handleStatus"
    /\ \E getOk \in BOOLEAN :
          cli' = IF ~getOk THEN Return(cli, "failed to get current mode")
                 ELSE Return([cli EXCEPT !.current = cli.device], "")
    /\ NotifierUnchanged

\* Mutant: the notifier is created whatever --no-toast says.
NotifierIsNilNever(noToast) == FALSE

\* var notifier *toast.Notifier; if !noToast { notifier = toast.NewNotifier() }
NotifierIsNil(noToast) == noToast

\* if notifier != nil { notifier.ShowModeChange(meta.Name, meta.IconPath) }
Notify ==
    /\ cli.pc = "notify"
    /\ IF NotifierIsNil(cli.noToast)
       THEN /\ cli' = Return(cli, "")
            /\ NotifierUnchanged
       ELSE /\ ShowModeChange("main", ModeName(cli.next))
            /\ cli' = [cli EXCEPT !.pc = "showing"]

\* Mutant: the handler returns the notification's error.
ToastResultPropagated(ret) == IF ret = "error" THEN "OSD notification error" ELSE ""

\* What the handler returns once ShowModeChange has returned ret: nil, after
\* a warning on standard error when ret is an error.
ToastResult(ret) == ""

Notified ==
    /\ cli.pc = "showing"
    /\ ShowReturns("main")
    /\ cli' = Return([cli EXCEPT !.toast = osd["main"].ret],
                     ToastResult(osd["main"].ret))

\* if err != nil { os.Exit(4) }
ExitCode(err) == IF err # "" THEN 4 ELSE 0

MainReturns ==
    /\ cli.pc = "handlerReturned"
    /\ cli' = Exit(ExitCode(cli.err))
    /\ NotifierUnchanged

\* The program is run again.
NextRun ==
    /\ cli.pc = "exited"
    /\ cli.run < MaxRuns
    /\ cli' = StartOfMain(cli.run + 1, cli.device, cli.origin, cli.trail)
    /\ classRegistered' = FALSE
    /\ globalTitle' = ""
    /\ globalMessage' = ""
    /\ wins' = <<>>
    /\ osd' = [t \in Threads |-> IdleFrame]
    /\ queue' = [t \in Threads |-> [posted |-> <<>>, quit |-> FALSE]]
    /\ lastPaint' = NoPaint
    /\ gdiLive' = {}
    /\ calls' = 0
    /\ UNCHANGED env

CliInit ==
    /\ InitNotifier
    /\ \E d \in DeviceModes : cli = StartOfMain(1, d, d, <<>>)

CliNext ==
    \/ Main
    \/ Switch
    \/ HandleToggle
    \/ HandleSet
    \/ HandleStatus
    \/ Notify
    \/ ShowOSDStep("main")
    \/ (\E h \in DOMAIN wins : TimerElapses(h))
    \/ Notified
    \/ MainReturns
    \/ NextRun

CliSpec == CliInit /\ [][CliNext]_vars

-----------------------------------------------------------------------------
(* Show* calls from two threads of one process.  The assignments to          *)
(* globalTitle and globalMessage are unsynchronized stores of two-word       *)
(* strings: between the store of one word and of the other a reader gets a   *)
(* string that is neither the old nor the new one.                           *)

GarbledText == "<garbled>"

\* A string variable between the two stores of an assignment.
TornString(old, new) == IF old = new THEN new ELSE GarbledText

\* Thread t calls ShowModeChange or ShowError, once.
BeginShow(t, call) ==
    /\ osd[t].pc = "idle"
    /\ osd[t].ret = "none"
    /\ calls < MaxCalls
    /\ calls' = calls + 1
    /\ osd' = [osd EXCEPT ![t] = [IdleFrame EXCEPT !.pc = "storeTitle",
                                               !.call = call,
                                               !.duration = OsdDurationMs]]
    /\ UNCHANGED <<classRegistered, globalTitle, globalMessage, wins, queue,
                   lastPaint, gdiLive, env, cli>>

\* globalTitle = ...; globalMessage = ...; return showOSD(globalTitle,
\* globalMessage, 3*time.Second): one store per step.
StoreText(t) ==
    LET text == RequestText(osd[t].call)
    IN  /\ osd[t].pc \in {"storeTitle", "storeTitle2", "storeMessage",
                          "storeMessage2"}
        /\ globalTitle' =
              CASE osd[t].pc = "storeTitle"  -> TornString(globalTitle, text[1])
                [] osd[t].pc = "storeTitle2" -> text[1]
                [] OTHER                     -> globalTitle
        /\ globalMessage' =
              CASE osd[t].pc = "storeMessage"  -> TornString(globalMessage, text[2])
                [] osd[t].pc = "storeMessage2" -> text[2]
                [] OTHER                       -> globalMessage
        /\ osd' =
              CASE osd[t].pc = "storeTitle"   -> [osd EXCEPT ![t].pc = "storeTitle2"]
                [] osd[t].pc = "storeTitle2"  -> [osd EXCEPT ![t].pc = "storeMessage"]
                [] osd[t].pc = "storeMessage" -> [osd EXCEPT ![t].pc = "storeMessage2"]
                [] OTHER -> [osd EXCEPT ![t].pc = "register",
                                        ![t].title = globalTitle,
                                        ![t].message = globalMessage']
        /\ UNCHANGED <<classRegistered, wins, queue, lastPaint, gdiLive, env,
                       calls, cli>>

ShowCalls ==
    {[fn |-> "ShowModeChange", arg |-> n] : n \in PowerModeNames}
    \cup {[fn |-> "ShowError", arg |-> m] : m \in ErrorTexts}

ConcNext ==
    \E t \in Threads :
        \/ \E call \in ShowCalls : BeginShow(t, call)
        \/ StoreText(t)
        \/ ShowOSDStep(t)
        \/ (ShowReturns(t) /\ UNCHANGED cli)
        \/ (\E h \in DOMAIN wins : wins[h].owner = t /\ TimerElapses(h))

\* A process whose drawing calls do not fail.
ConcInit ==
    /\ classRegistered = FALSE
    /\ globalTitle = ""
    /\ globalMessage = ""
    /\ wins = <<>>
    /\ osd = [t \in Threads |-> IdleFrame]
    /\ queue = [t \in Threads |-> [posted |-> <<>>, quit |-> FALSE]]
    /\ lastPaint = NoPaint
    /\ gdiLive = {}
    /\ env = [events |-> 0, faults |-> MaxFaults, screen |-> FullHD]
    /\ calls = 0
    /\ cli = NoCli

ConcSpec == ConcInit /\ [][ConcNext]_vars

\* Display sizes GetSystemMetrics may report (0 when the call fails).
ScreenWidths == {0, 399, 400, 401, 1366, 1920}
ScreenHeights == {0, 1, 7, 600, 768, 1080}

\* Show* calls on a primary display of any of these sizes.
DisplayInit ==
    /\ \E w \in ScreenWidths, h \in ScreenHeights :
          InitNotifierOn([w |-> w, h |-> h])
    /\ cli = NoCli

DisplayNext ==
    \/ CallShowModeChange("main")
    \/ ShowOSDStep("main")
    \/ (ShowReturns("main") /\ UNCHANGED cli)
    \/ (\E h \in DOMAIN wins : TimerElapses(h))

DisplaySpec == DisplayInit /\ [][DisplayNext]_vars

\* The thread that called Show* keeps running and time passes.
LiveSpec ==
    /\ Spec
    /\ WF_vars(ShowOSDStep("main"))
    /\ WF_vars(\E h \in DOMAIN wins : TimerElapses(h))

-----------------------------------------------------------------------------
(* Claims *)

TimerArmed(t) ==
    \E h \in DOMAIN wins :
        wins[h].owner = t /\ wins[h].state = "live" /\ wins[h].timer # "off"

Exited(t) == osd[t].pc = "returned"

C2_ExactlyOneDestroyRequest ==
    \A h \in DOMAIN wins :
        wins[h].state = "destroyed" =>
            wins[h].destroyReqs = 1 /\ wins[h].expired

\* C2 amended: the WM_TIMER handler issues at most one destroy request per
\* overlay, only after the overlay's timer has expired and never for a window
\* that is already gone; an overlay destroyed without it was closed through
\* the default handler (WM_CLOSE), once.
C2_AtMostOneDestroyRequest ==
    \A h \in DOMAIN wins :
        /\ wins[h].destroyReqs <= 1
        /\ wins[h].destroyReqs = 1 => wins[h].expired /\ wins[h].state = "destroyed"
        /\ wins[h].state = "destroyed" =>
               wins[h].destroyReqs = 1 \/ (wins[h].destroyReqs = 0 /\ wins[h].destroys = 1)

\* C2 witness: an overlay destroyed by its timer handler after a repaint
\* request, with one destroy request.
C2_Witness ==
    \E h \in DOMAIN wins :
        /\ wins[h].state = "destroyed"
        /\ wins[h].destroyReqs = 1
        /\ wins[h].expired
        /\ env.events > 0

\* C3: a window is destroyed at most once, it has been destroyed exactly once
\* when its Show* call returns nil, and no message is dispatched to, and no
\* paint done on, a handle that has been destroyed.
C3_DestroyedOnce ==
    /\ \A h \in DOMAIN wins :
          /\ wins[h].destroys <= 1
          /\ wins[h].state = "destroyed" <=> wins[h].destroys = 1
    /\ \A t \in Threads :
          /\ (Exited(t) /\ osd[t].ret = "nil") =>
                 /\ osd[t].hwnd \in DOMAIN wins
                 /\ wins[osd[t].hwnd].destroys = 1
          /\ (osd[t].pc = "dispatch" /\ osd[t].msg.hwnd # NoHwnd) =>
                 LiveWindow(osd[t].msg.hwnd)
    /\ lastPaint.hwnd # NoHwnd =>
          lastPaint.hwnd \in DOMAIN wins /\ wins[lastPaint.hwnd].destroys = 0

\* C3 witness: a window destroyed by the OS (WM_CLOSE) after its timer had
\* expired, whose call has returned.
C3_Witness ==
    \E h \in DOMAIN wins :
        /\ wins[h].destroys = 1
        /\ wins[h].destroyReqs = 0
        /\ wins[h].expired
        /\ Exited(wins[h].owner)
        /\ osd[wins[h].owner].hwnd = h

\* C4: when a paint response returns, every drawing resource it acquired has
\* had exactly one release call and none is still allocated, whatever calls
\* failed; so no drawing resource is ever live between messages.
C4_ResourceBalance ==
    /\ gdiLive = {}
    /\ lastPaint.live = {}
    /\ \A r \in DrawingResources :
          lastPaint.releases[r] = IF r \in lastPaint.acquired THEN 1 ELSE 0

\* C4 witness: a repaint dispatched by the message loop (not the first
\* paint) in which a fill or text drawing call failed although both fonts had
\* been created.
C4_Witness ==
    /\ lastPaint.hwnd # NoHwnd
    /\ lastPaint.drawFailed
    /\ {"titleFont", "messageFont"} \subseteq lastPaint.acquired
    /\ osd[wins[lastPaint.hwnd].owner].pc = "getmsg"
    /\ env.events > 0

InSetupOrLoop(t) ==
    osd[t].pc \in {"layered", "show", "update", "settimer", "getmsg", "dispatch"}

\* C5: when window creation yields no handle (also because the class could
\* not be registered) Show* returns an error, having entered neither the
\* rest of the setup nor the message loop, with no timer armed and no window
\* of the thread live or visible; and an error is returned in no other case.
C5_CreateFailure ==
    \A t \in Threads :
        /\ InSetupOrLoop(t) => osd[t].hwnd \in DOMAIN wins /\ classRegistered
        /\ (Exited(t) /\ osd[t].hwnd = NoHwnd) =>
               /\ osd[t].ret = "error"
               /\ \A h \in DOMAIN wins :
                     wins[h].owner = t =>
                         /\ wins[h].state = "destroyed"
                         /\ ~wins[h].visible
                         /\ wins[h].timer = "off"
        /\ (Exited(t) /\ osd[t].ret = "error") => osd[t].hwnd = NoHwnd
        /\ (Exited(t) /\ ~classRegistered) => osd[t].ret = "error"

\* C5 witness: a call has returned an error because the class registration
\* failed and so no window could be created.
C5_Witness ==
    \E t \in Threads :
        /\ Exited(t)
        /\ osd[t].ret = "error"
        /\ ~classRegistered
        /\ wins = <<>>

LiveWindows == {h \in DOMAIN wins : wins[h].state = "live"}

\* C7: Show* calls made one after the other never have two overlay windows
\* at once: a call creates its window only when every earlier window has
\* been destroyed, and a call that returned nil left no window behind.
C7_Serialized ==
    /\ Cardinality(LiveWindows) <= 1
    /\ \A h \in DOMAIN wins : h < Len(wins) => wins[h].state = "destroyed"
    /\ \A t \in Threads :
          osd[t].pc \in {"idle", "register", "create", "returned"} =>
              OwnedBy(t) = {}

\* C7 witness: the second call's window is live and visible after the first
\* call's window was shown and destroyed.
C7_Witness ==
    /\ Len(wins) = 2
    /\ wins[1].state = "destroyed"
    /\ wins[1].alpha = OsdAlpha
    /\ wins[2].state = "live"
    /\ wins[2].visible

\* The text the specification gives for a Show* call.
ExpectedText(call) ==
    CASE call.fn = "ShowModeChange" /\ call.arg = "Quiet" ->
           <<"Power Mode Changed", "Switched to Quiet Mode">>
      [] call.fn = "ShowModeChange" /\ call.arg = "Balance" ->
           <<"Power Mode Changed", "Switched to Balance Mode">>
      [] call.fn = "ShowModeChange" /\ call.arg = "Performance" ->
           <<"Power Mode Changed", "Switched to Performance Mode">>
      [] call.fn = "ShowError" ->
           <<"Power Mode Error", call.arg>>
      [] OTHER -> <<"", "">>

\* C8: every paint response reads the title and message of the call that
\* created the window, as the specification words them, and while a window
\* is live the text a paint would read is that text.
C8_TextFixed ==
    /\ lastPaint.hwnd # NoHwnd =>
          <<lastPaint.title, lastPaint.message>> =
              ExpectedText(osd[wins[lastPaint.hwnd].owner].call)
    /\ \A h \in LiveWindows :
          <<globalTitle, globalMessage>> = ExpectedText(osd[wins[h].owner].call)

\* C8 witness: a repaint of the second call's window, a ShowModeChange after
\* a ShowError.
C8_Witness ==
    /\ lastPaint.hwnd = 2
    /\ lastPaint.title = "Power Mode Changed"
    /\ osd[wins[2].owner].pc = "getmsg"
    /\ osd[wins[2].owner].call.fn = "ShowModeChange"
    /\ env.events > 0

\* C6: a toggle or set run that called SetMode exits with 0 when SetMode
\* succeeded, whatever ShowModeChange returned, and with 4 when SetMode failed.
C6_ExitBySetMode ==
    (cli.pc = "exited" /\ cli.command \in {"toggle", "set"}) =>
        /\ cli.setMode = "ok" => cli.exitCode = 0
        /\ cli.setMode = "failed" => cli.exitCode = 4 /\ cli.toast = "none"

\* C6 witness: a run has exited with 0 after SetMode succeeded and
\* ShowModeChange returned an error.
C6_Witness ==
    /\ cli.pc = "exited"
    /\ cli.setMode = "ok"
    /\ cli.toast = "error"
    /\ cli.exitCode = 0

\* The cycle the README draws.
Rotated(mode) ==
    CASE mode = "quiet"       -> "balance"
      [] mode = "balance"     -> "performance"
      [] mode = "performance" -> "quiet"
      [] OTHER                -> "quiet"

\* C9: each successful toggle without --modes sets the mode that follows the
\* current one in quiet -> balance -> performance -> quiet, and quiet when
\* the current mode is none of the three; three in a row from one of the
\* three modes visit the other two and return to it.
C9_Rotation ==
    LET visited == <<cli.origin>> \o cli.trail
    IN  /\ \A i \in 1..Len(cli.trail) : cli.trail[i] = Rotated(visited[i])
        /\ (Len(cli.trail) >= 3 /\ cli.origin \in {"quiet", "balance", "performance"}) =>
               /\ cli.trail[3] = cli.origin
               /\ {cli.trail[1], cli.trail[2]} =
                      {"quiet", "balance", "performance"} \ {cli.origin}

\* C9 witness: three successful plain toggles in a row starting from
\* performance.
C9_Witness ==
    /\ cli.origin = "performance"
    /\ Len(cli.trail) = 3
    /\ cli.pc = "exited"

\* C9 witness for the other case: a plain toggle from a mode that is none of
\* the three.
C9_WitnessUnknown ==
    /\ cli.origin = "godmode"
    /\ Len(cli.trail) = 1
    /\ cli.pc = "exited"

\* C10: a set run whose --mode value is no known power mode exits with 3.
C10_UnknownModeExits3 ==
    (/\ cli.pc = "exited"
     /\ cli.command = "set"
     /\ cli.modeFlag \notin {"", "quiet", "balance", "performance"}
     /\ cli.exitCode # 1) =>
        cli.exitCode = 3

\* C11: when llt.exe is not found or the availability probe fails, the run
\* exits with 1 whatever the command, before any handler has run: the current
\* mode was not read, SetMode was not called and no overlay was requested.
C11_UnusableClientExits1 ==
    cli.llt \in {"missing", "down"} =>
        /\ cli.pc = "exited"
        /\ cli.exitCode = 1
        /\ cli.current = "" /\ cli.next = ""
        /\ cli.setMode = "none"
        /\ cli.toast = "none"
        /\ calls = 0
        /\ wins = <<>>
        /\ osd["main"].pc = "idle"

\* C11 witness: a set run without --mode has exited with 1, not 2, because
\* the probe failed, in a run after one that changed the mode.
C11_Witness ==
    /\ cli.llt = "down"
    /\ cli.command = "set"
    /\ cli.modeFlag = ""
    /\ cli.exitCode = 1
    /\ cli.run > 1
    /\ cli.device # cli.origin

\* The text of the overlay for a power mode, as the README shows the modes.
ModeChangeText(mode) ==
    CASE mode = "quiet"       -> "Switched to Quiet Mode"
      [] mode = "balance"     -> "Switched to Balance Mode"
      [] mode = "performance" -> "Switched to Performance Mode"
      [] OTHER                -> ""

\* C12: in a run, an overlay is requested only after SetMode has succeeded,
\* at most once, and its text (also every painted text) names the mode that
\* was just set, which is the mode the machine is in.
C12_OverlayAfterSetMode ==
    /\ (calls > 0 \/ osd["main"].pc # "idle" \/ wins # <<>>) =>
          /\ cli.setMode = "ok"
          /\ cli.command \in {"toggle", "set"}
          /\ cli.device = cli.next
          /\ calls = 1
          /\ globalTitle = "Power Mode Changed"
          /\ globalMessage = ModeChangeText(cli.device)
    /\ lastPaint.hwnd # NoHwnd => lastPaint.message = ModeChangeText(cli.device)
    /\ cli.setMode # "ok" => cli.toast = "none"

\* C12 witness: the overlay of a toggle run has painted the name of the mode
\* the toggle set.
C12_Witness ==
    /\ cli.command = "toggle"
    /\ cli.setMode = "ok"
    /\ cli.current = "quiet"
    /\ lastPaint.hwnd # NoHwnd
    /\ lastPaint.message = "Switched to Balance Mode"

\* The mode a run asks SetMode for, from its command line and the current
\* mode alone.
TargetMode(command, modeFlag, modesFlag, current) ==
    IF command = "set" THEN modeFlag
    ELSE GetNextModeFromList(current, ParseModes(modesFlag))

\* C13: with --no-toast no overlay is requested, no window exists and the
\* run is never inside showOSD; and the mode SetMode is called with, and its
\* effect on the machine, are the same with and without the flag.
C13_NoToast ==
    /\ cli.noToast =>
          /\ calls = 0
          /\ wins = <<>>
          /\ osd["main"].pc = "idle"
          /\ cli.pc # "showing"
          /\ cli.toast = "none"
    /\ cli.setMode # "none" =>
          cli.next = TargetMode(cli.command, cli.modeFlag, cli.modesFlag,
                                cli.current)
    /\ cli.setMode = "ok" => cli.device = cli.next
    /\ (cli.pc = "exited" /\ cli.setMode = "ok") => cli.exitCode = 0

\* C13 witness: a toggle run with --no-toast has changed the mode and exited
\* with 0.
C13_Witness ==
    /\ cli.noToast
    /\ cli.command = "toggle"
    /\ cli.pc = "exited"
    /\ cli.exitCode = 0
    /\ cli.setMode = "ok"
    /\ cli.current = "performance"
    /\ cli.device = "quiet"

\* C14: plain toggles run the four-mode cycle quiet -> balance ->
\* performance -> godmode -> quiet: three of them starting from quiet reach
\* godmode.
C14_FourModeCycle ==
    (cli.origin = "quiet" /\ Len(cli.trail) >= 3) => cli.trail[3] = "godmode"

\* A Show* call's window has been set up and torn down: made translucent,
\* destroyed once, its timer gone, nothing of it left on the thread.
TornDown(t) ==
    /\ osd[t].hwnd \in DOMAIN wins
    /\ wins[osd[t].hwnd].state = "destroyed"
    /\ wins[osd[t].hwnd].destroys = 1
    /\ wins[osd[t].hwnd].alpha = OsdAlpha
    /\ ~wins[osd[t].hwnd].visible
    /\ wins[osd[t].hwnd].timer = "off"
    /\ OwnedBy(t) = {}

\* C15: a Show* call whose class registration reports that the class exists
\* already goes on to create its window (the report is no failure), and a
\* call that returns nil has set up and torn down its window, whatever its
\* registration returned; an error is returned only without a window.
C15_RegistrationIdempotent ==
    /\ [](\A t \in Threads :
            /\ osd[t].regRet = "exists" => classRegistered
            /\ (Exited(t) /\ osd[t].ret = "nil") => TornDown(t)
            /\ (Exited(t) /\ osd[t].ret = "error") =>
                   osd[t].hwnd = NoHwnd /\ OwnedBy(t) = {})
    /\ [][\A t \in Threads :
            (osd[t].pc = "register" /\ classRegistered /\ osd'[t] # osd[t]) =>
                osd'[t].pc = "create" /\ osd'[t].regRet = "exists"]_vars

\* C15 witness: the second call of a process, whose registration reported
\* the existing class, has returned nil after its window was shown and
\* destroyed.
C15_Witness ==
    /\ osd["main"].regRet = "exists"
    /\ Exited("main")
    /\ osd["main"].ret = "nil"
    /\ osd["main"].hwnd = 2
    /\ wins[1].state = "destroyed"
    /\ wins[2].destroys = 1

Abs(n) == IF n < 0 THEN 0 - n ELSE n

\* C16: on a W x H display every overlay window is 400 wide and 100 high,
\* its left edge is (W - 400) / 2 truncated toward zero, so the left and the
\* right margin differ by at most 1, and its top edge is floor(15*H/100)
\* above the bottom edge of the display.
C16_Placement ==
    \A h \in DOMAIN wins :
        LET W     == env.screen.w
            H     == env.screen.h
            left  == wins[h].x
            right == W - (wins[h].x + wins[h].width)
        IN  /\ wins[h].width = 400
            /\ wins[h].height = 100
            /\ Abs(left - right) <= 1
            /\ Abs(2 * left) <= Abs(W - 400)
            /\ W >= 400 => left = (W - 400) \div 2
            /\ 100 * (H - wins[h].y) <= 15 * H
            /\ 15 * H < 100 * (H - wins[h].y + 1)

\* C16 witness: an overlay on a 1366 x 768 display (odd margin sum, 15% of
\* the height no whole number) is visible.
C16_Witness ==
    /\ env.screen = [w |-> 1366, h |-> 768]
    /\ \E h \in DOMAIN wins :
          /\ wins[h].visible
          /\ wins[h].x = 483
          /\ wins[h].y = 653

\* C17: the timer of an overlay fires (a WM_TIMER message is generated) at
\* most once; its handler's destroy request takes the timer away with the
\* window in the same step, and a destroyed handle has no timer and no
\* message on its way.
C17_TimerGoneWithWindow ==
    \A h \in DOMAIN wins :
        /\ wins[h].timerMsgs <= 1
        /\ wins[h].destroyReqs >= 1 =>
               wins[h].state = "destroyed" /\ wins[h].timer = "off"
        /\ (wins[h].timerMsgs = 1 /\ osd[wins[h].owner].pc # "dispatch") =>
               wins[h].destroyReqs = 1
        /\ wins[h].state = "destroyed" =>
               /\ wins[h].timer = "off"
               /\ \A t \in Threads :
                     /\ \A m \in Retrievable(t) : m.hwnd # h
                     /\ \A i \in 1..Len(queue[t].posted) :
                           queue[t].posted[i].hwnd # h
                     /\ osd[t].pc = "dispatch" => osd[t].msg.hwnd # h

\* C17 witness: the timer handler has just destroyed the window on the one
\* WM_TIMER message of its timer; the quit signal waits and no timer is left.
C17_Witness ==
    \E h \in DOMAIN wins :
        /\ wins[h].timerMsgs = 1
        /\ wins[h].destroyReqs = 1
        /\ wins[h].timer = "off"
        /\ osd[wins[h].owner].pc = "getmsg"
        /\ osd[wins[h].owner].msg = [hwnd |-> h, message |-> "WM_TIMER"]
        /\ queue[wins[h].owner].quit

\* C18: an overlay whose timer could not be armed is still destroyed: no
\* call waits in the message loop for a visible window that has no timer, with
\* nothing to retrieve.
C18_NoOverlayWithoutTimer ==
    \A t \in Threads :
        ~ (/\ osd[t].pc = "getmsg"
           /\ LiveWindow(osd[t].hwnd)
           /\ wins[osd[t].hwnd].visible
           /\ wins[osd[t].hwnd].timer = "off"
           /\ Retrievable(t) = {})

\* The window of thread t's call was destroyed before its timer expired.
DestroyedEarly(t) ==
    /\ osd[t].hwnd \in DOMAIN wins
    /\ wins[osd[t].hwnd].state = "destroyed"
    /\ ~wins[osd[t].hwnd].expired

\* C19: when the window is destroyed before its timer expires, the quit
\* signal has been posted, the timer handler issues no destroy request for it,
\* and the call leaves the loop and returns nil.
C19_EarlyDestroyEndsLoop ==
    /\ [](\A t \in Threads :
            DestroyedEarly(t) =>
                /\ wins[osd[t].hwnd].destroyReqs = 0
                /\ wins[osd[t].hwnd].timerMsgs = 0
                /\ wins[osd[t].hwnd].destroys = 1
                /\ \/ osd[t].pc = "getmsg" /\ queue[t].quit
                   \/ Exited(t) /\ osd[t].ret = "nil")
    /\ \A t \in Threads :
          DestroyedEarly(t) ~> (Exited(t) /\ osd[t].ret = "nil")

\* C19 witness: a call has returned nil after its window was closed while
\* its timer was armed and had not expired.
C19_Witness ==
    /\ DestroyedEarly("main")
    /\ Exited("main")
    /\ osd["main"].ret = "nil"
    /\ osd["main"].msg.message = "WM_QUIT"
    /\ wins[osd["main"].hwnd].destroyReqs = 0

\* The dispatcher's phase in a showOSD frame: Pumping inside the loop, Exited
\* when the loop was left, Idle otherwise (Draining is the step from Pumping
\* to Exited).
Phase(frame) ==
    IF frame.pc \in {"getmsg", "dispatch"} THEN "Pumping"
    ELSE IF frame.pc = "returned" /\ frame.ret = "nil" THEN "Exited"
    ELSE "Idle"

\* The window procedure has handled message m in the step to the primed
\* state.
Handled(m) ==
    CASE m.message = "WM_PAINT" ->
           lastPaint'.hwnd = m.hwnd
      [] m.message \in {"WM_TIMER", "WM_CLOSE"} ->
           /\ wins[m.hwnd].destroys = 0
           /\ wins'[m.hwnd].destroys = 1
      [] OTHER -> wins' = wins

\* C20: the dispatcher of a call moves Idle -> Pumping -> Exited and back to
\* Idle only when the call returns; it leaves Pumping in the step that
\* retrieves the quit signal and in no other, and the loop's test lets no
\* other result of a retrieval, an error included, end the loop; outside
\* Pumping the thread retrieves and dispatches nothing; a retrieved message
\* is dispatched, unchanged, before the next retrieval.
C20_DispatcherForwardOnly ==
    /\ [](\A r \in GetMessageResults : LoopBreaks(r) <=> r = 0)
    /\ [][\A t \in Threads :
            LET p == Phase(osd[t])
                q == Phase(osd'[t])
            IN  /\ <<p, q>> \in {<<"Idle", "Idle">>, <<"Idle", "Pumping">>,
                                 <<"Pumping", "Pumping">>,
                                 <<"Pumping", "Exited">>,
                                 <<"Exited", "Exited">>, <<"Exited", "Idle">>}
                /\ (p = "Pumping" /\ q = "Exited") =>
                       /\ osd[t].pc = "getmsg"
                       /\ queue[t].posted = <<>> /\ queue[t].quit
                       /\ osd'[t].msg.message = "WM_QUIT"
                /\ (osd[t].pc = "getmsg" /\ osd'[t].pc = "dispatch") =>
                       /\ osd'[t].msg \in Retrievable(t)
                       /\ osd'[t].msg.message # "WM_QUIT"
                /\ (osd[t].pc = "getmsg" /\ osd'[t] # osd[t]) =>
                       osd'[t].pc \in {"dispatch", "returned"}
                /\ (osd[t].pc = "dispatch" /\ osd'[t] # osd[t]) =>
                       /\ osd'[t].pc = "getmsg"
                       /\ osd'[t].msg = osd[t].msg
                       /\ Handled(osd[t].msg)
                /\ p # "Pumping" =>
                       /\ Len(queue'[t].posted) >= Len(queue[t].posted)
                       /\ queue[t].quit => queue'[t].quit
                       /\ q # "Pumping" =>
                              osd'[t].msg = osd[t].msg \/ osd'[t].msg = NoMsg]_vars

\* C20 witness: a call has left the loop on the quit signal after a repaint
\* request and a posted message were retrieved and dispatched and the timer's
\* message destroyed the window.
C20_Witness ==
    /\ Phase(osd["main"]) = "Exited"
    /\ osd["main"].msg.message = "WM_QUIT"
    /\ env.events = 2
    /\ queue["main"].posted = <<>>
    /\ wins[osd["main"].hwnd].timerMsgs = 1
    /\ wins[osd["main"].hwnd].destroyReqs = 1

\* The statements of a Show* call in the order the specification gives.
SetupOrder ==
    {<<"idle", "register">>, <<"register", "create">>,
     <<"create", "layered">>, <<"create", "returned">>,
     <<"layered", "show">>, <<"show", "update">>, <<"update", "settimer">>,
     <<"settimer", "getmsg">>, <<"getmsg", "dispatch">>,
     <<"dispatch", "getmsg">>, <<"getmsg", "returned">>,
     <<"returned", "idle">>}

\* C21: a Show* call creates the window, applies alpha 220, shows the window
\* and forces the redraw, calls SetTimer and enters the loop, in this order:
\* a visible window is translucent already, a timer exists only once the
\* loop has been reached, and no message is retrieved before that.
C21_SetupOrder ==
    /\ [](\A t \in Threads :
            LET h == osd[t].hwnd
            IN  /\ osd[t].pc = "layered" =>
                       /\ LiveWindow(h)
                       /\ wins[h].alpha = 0 /\ ~wins[h].visible
                       /\ wins[h].timer = "off"
                /\ osd[t].pc = "show" =>
                       /\ LiveWindow(h)
                       /\ wins[h].alpha = 220 /\ ~wins[h].visible
                       /\ wins[h].timer = "off"
                /\ osd[t].pc \in {"update", "settimer"} =>
                       /\ LiveWindow(h)
                       /\ wins[h].alpha = 220 /\ wins[h].visible
                       /\ wins[h].timer = "off"
                       /\ wins[h].timerMsgs = 0
                /\ osd[t].msg # NoMsg =>
                       osd[t].pc \in {"getmsg", "dispatch", "returned"})
    /\ [](\A h \in DOMAIN wins :
            /\ wins[h].visible => wins[h].alpha = 220
            /\ wins[h].timer # "off" =>
                   osd[wins[h].owner].pc \in {"getmsg", "dispatch"})
    /\ [][\A t \in Threads :
            osd'[t].pc # osd[t].pc => <<osd[t].pc, osd'[t].pc>> \in SetupOrder]_vars

\* C21 witness: a call has entered the loop and retrieved nothing yet; its
\* window is translucent, visible and painted, its timer armed.
C21_Witness ==
    /\ osd["main"].pc = "getmsg"
    /\ osd["main"].msg = NoMsg
    /\ LiveWindow(osd["main"].hwnd)
    /\ wins[osd["main"].hwnd].alpha = 220
    /\ wins[osd["main"].hwnd].visible
    /\ ~wins[osd["main"].hwnd].dirty
    /\ wins[osd["main"].hwnd].timer = "armed"

\* Thread t is about to run the paint response for its window: the loop
\* dispatches WM_PAINT, or UpdateWindow sends it.
AboutToPaint(t) ==
    \/ osd[t].pc = "dispatch" /\ osd[t].msg.message = "WM_PAINT"
    \/ /\ osd[t].pc = "update"
       /\ LiveWindow(osd[t].hwnd)
       /\ wins[osd[t].hwnd].dirty

\* C22: a paint response, whatever drawing calls fail in it, changes nothing
\* of the window but its need for painting: handle, timer, translucency and
\* visibility stay, the request text stays, nothing is posted or destroyed,
\* and the thread goes on with the statement after the dispatch; a call that
\* had a window returns nil whatever its paints did.
C22_PaintLeavesLifecycle ==
    /\ [][\A t \in Threads :
            (AboutToPaint(t) /\ osd'[t] # osd[t]) =>
                LET h == IF osd[t].pc = "dispatch" THEN osd[t].msg.hwnd
                         ELSE osd[t].hwnd
                IN  /\ lastPaint'.hwnd = h
                    /\ Len(wins') = Len(wins)
                    /\ \A w \in DOMAIN wins :
                          wins'[w] = [wins[w] EXCEPT !.dirty = wins'[w].dirty]
                    /\ wins'[h].dirty => wins[h].dirty
                    /\ queue' = queue
                    /\ globalTitle' = globalTitle
                    /\ globalMessage' = globalMessage
                    /\ osd'[t] = [osd[t] EXCEPT
                                    !.pc = IF osd[t].pc = "dispatch"
                                           THEN "getmsg" ELSE "settimer"]]_vars
    /\ [](\A t \in Threads :
            (Exited(t) /\ osd[t].hwnd # NoHwnd) => osd[t].ret = "nil")

\* C22 witness: a repaint in the loop whose BeginPaint failed has returned
\* to the loop; the window still needs painting, is visible, and its timer
\* is armed.
C22_Witness ==
    /\ lastPaint.hwnd # NoHwnd
    /\ ~lastPaint.validated
    /\ osd["main"].pc = "getmsg"
    /\ osd["main"].msg.message = "WM_PAINT"
    /\ LiveWindow(lastPaint.hwnd)
    /\ wins[lastPaint.hwnd].dirty
    /\ wins[lastPaint.hwnd].visible
    /\ wins[lastPaint.hwnd].timer = "armed"

\* C23: a paint draws what globalTitle and globalMessage hold when it runs,
\* whichever call stored it; with Show* calls from two threads this can be
\* the text of the other thread's request (the witness).
C23_PaintReadsSharedRecord ==
    [][\A t \in Threads :
         (AboutToPaint(t) /\ osd'[t] # osd[t]) =>
             /\ lastPaint'.hwnd # NoHwnd
             /\ wins[lastPaint'.hwnd].owner = t
             /\ <<lastPaint'.title, lastPaint'.message>> =
                    <<globalTitle, globalMessage>>]_vars

\* C23 witness: the window of one thread's request has been painted with the
\* message of the other thread's request, which is not its own.
C23_Witness ==
    /\ lastPaint.hwnd # NoHwnd
    /\ \E t \in Threads, u \in Threads :
          /\ t # u
          /\ wins[lastPaint.hwnd].owner = t
          /\ osd[u].call # NoCall
          /\ lastPaint.message = RequestText(osd[u].call)[2]
          /\ lastPaint.message # RequestText(osd[t].call)[2]

Range(list) == {list[i] : i \in 1..Len(list)}

\* C24: the mode a toggle run asks SetMode for: with a list L of allowed
\* modes it is an element of L, the first one when the current mode is not
\* in L, else the one after the first occurrence of the current mode,
\* wrapping around; without a list it is GetNextMode's.
C24_NextFromList ==
    (cli.command = "toggle" /\ cli.setMode # "none") =>
        LET L == SelectSeq(cli.modesFlag, LAMBDA part : part # "")
            c == cli.current
        IN  IF L = <<>>
            THEN cli.next = GetNextMode(c)
            ELSE /\ cli.next \in Range(L)
                 /\ c \notin Range(L) => cli.next = L[1]
                 /\ c \in Range(L) =>
                        \E i \in 1..Len(L) :
                            /\ L[i] = c
                            /\ \A j \in 1..(i - 1) : L[j] # c
                            /\ cli.next = L[(i % Len(L)) + 1]

\* C24 witness: a toggle with --modes=performance,quiet from quiet, the last
\* element of the list, has set performance, the first.
C24_Witness ==
    /\ cli.command = "toggle"
    /\ cli.modesFlag = <<"performance", "quiet">>
    /\ cli.current = "quiet"
    /\ cli.setMode = "ok"
    /\ cli.device = "performance"

\* The run fails before SetMode: failing GetCurrentMode, a --modes value with
\* an invalid name or with no name, set with an invalid name or without
\* --mode, an unknown command.
FailsBeforeSetMode ==
    /\ cli.llt = "ok"
    /\ \/ cli.command \notin {"toggle", "set", "status"}
       \/ /\ cli.command = "set"
          /\ cli.modeFlag \notin {"quiet", "balance", "performance"}
       \/ /\ cli.command = "toggle"
          /\ \/ \E i \in 1..Len(cli.modesFlag) :
                   cli.modesFlag[i] \notin {"", "quiet", "balance", "performance"}
             \/ /\ cli.modesFlag # <<>>
                /\ \A i \in 1..Len(cli.modesFlag) : cli.modesFlag[i] = ""
             \/ cli.err = "failed to get current mode"

\* C25: in a run that fails before SetMode, SetMode is not called, no overlay
\* is requested, the machine's power mode stays what it was and the exit code
\* is not 0.
C25_FailureLeavesMode ==
    /\ [](FailsBeforeSetMode =>
            /\ cli.setMode = "none"
            /\ cli.toast = "none"
            /\ calls = 0
            /\ wins = <<>>
            /\ osd["main"].pc = "idle"
            /\ cli.pc = "exited" => cli.exitCode \in {2, 4})
    /\ [][FailsBeforeSetMode => cli'.device = cli.device]_vars

\* C25 witness: a toggle whose --modes value has a valid name before an
\* invalid one has exited with 4, the mode being what an earlier run set.
C25_Witness ==
    /\ cli.pc = "exited"
    /\ cli.command = "toggle"
    /\ cli.modesFlag = <<"quiet", "godmode">>
    /\ cli.exitCode = 4
    /\ cli.run > 1
    /\ cli.device = "performance"
    /\ cli.origin = "performance"

\* C26: a quit signal is pending on a thread only inside the loop of a call
\* whose own window has been destroyed, once; none is pending when a call
\* starts, sets up its window or has returned, so a loop ends only on the
\* quit signal of its own window.
C26_QuitConsumed ==
    \A t \in Threads :
        /\ queue[t].quit =>
               /\ osd[t].pc = "getmsg"
               /\ osd[t].hwnd \in DOMAIN wins
               /\ wins[osd[t].hwnd].state = "destroyed"
               /\ wins[osd[t].hwnd].destroys = 1
        /\ osd[t].pc # "getmsg" => ~queue[t].quit
        /\ (Exited(t) /\ osd[t].ret = "nil") =>
               /\ osd[t].msg.message = "WM_QUIT"
               /\ wins[osd[t].hwnd].state = "destroyed"
               /\ queue[t].posted = <<>>

\* C26 witness: the loop of the second call on the thread is dispatching a
\* message to its live window after the first call's window was destroyed and
\* its quit signal consumed.
C26_Witness ==
    /\ calls = 2
    /\ Len(wins) = 2
    /\ wins[1].destroys = 1
    /\ osd["main"].pc = "dispatch"
    /\ osd["main"].hwnd = 2
    /\ LiveWindow(2)
    /\ ~queue["main"].quit

-----------------------------------------------------------------------------
(* `llt-helper toggle --modes=<list> --no-toast` run again and again with    *)
(* one list of valid mode names, each run finding the machine in the mode    *)
(* the run before left it in.                                                *)

\* The non-empty --modes values made of valid mode names.
ToggleLists ==
    UNION {[1..n -> {m \in DeviceModes : IsValidMode(m)}] : n \in 1..MaxModes}

\* The modes set by the runs so far, this run's included.
ModesSet ==
    cli.sets \o (IF cli.setMode = "ok" THEN <<cli.next>> ELSE <<>>)

\* main up to the command switch, the command line being the toggle with the
\* list.
ToggleMain ==
    /\ cli.pc = "main"
    /\ \E lltFound \in BOOLEAN, lltRunning \in BOOLEAN :
          LET c == [cli EXCEPT !.command = "toggle", !.modesFlag = cli.list,
                               !.noToast = TRUE,
                               !.llt = LltState(lltFound, lltRunning)]
          IN  cli' = IF ClientUnusable(c.llt)
                     THEN [c EXCEPT !.pc = "exited", !.exitCode = 1]
                     ELSE [c EXCEPT !.pc = "switch"]
    /\ NotifierUnchanged

\* The same command line is run again.
ToggleAgain ==
    /\ cli.pc = "exited"
    /\ cli.run < MaxRuns
    /\ cli' = StartOfMain(cli.run + 1, cli.device, cli.origin, cli.trail)
                  @@ [list |-> cli.list, sets |-> ModesSet]
    /\ NotifierUnchanged

ToggleInit ==
    /\ InitNotifier
    /\ \E d \in DeviceModes, l \in ToggleLists :
          cli = StartOfMain(1, d, d, <<>>) @@ [list |-> l, sets |-> <<>>]

ToggleNext ==
    \/ ToggleMain
    \/ Switch
    \/ HandleToggle
    \/ Notify
    \/ MainReturns
    \/ ToggleAgain

ToggleSpec == ToggleInit /\ [][ToggleNext]_vars

\* C27: repeated toggles with a list of valid mode names set every mode the
\* list names: the mode a run sets is a function of the mode the run before
\* set, so every mode that is ever set is among those set by the first
\* Len(list) successful runs.
C27_EveryListedModeSet ==
    Len(ModesSet) >= Len(cli.list) => Range(cli.list) \subseteq Range(ModesSet)

====
